---- MODULE Spec2Model ----
(***************************************************************************)
(* Model of the document access gate of app::Document                      *)
(* (src/src/app/document.cpp, "Multi-threading" section): the fields       *)
(* m_write_lock, m_read_locks and m_mutex, and the operations lock,        *)
(* lockToWrite, unlockToRead and unlock, each split into the steps a       *)
(* thread takes: call, scoped_lock construction, the test of the gate      *)
(* fields, the update of the gate fields, scoped_lock destruction, return. *)
(* The callers' tickets (readTickets, writeTicket) record what the return  *)
(* values of the calls have granted to each thread.                        *)
(*                                                                         *)
(* The other state of a Document that its operations assign (the           *)
(* associated-to-file flag, the mask, its visibility and transformation,   *)
(* the cached boundary m_bound) is the record `document`; duplicate()      *)
(* builds the record `documentCopy`.                                       *)
(*                                                                         *)
(* raster::ImageBits and raster::LockImageBits                             *)
(* (src/src/raster/image_bits.h) are the objects of `bits` and `guards`,   *)
(* with the last call on an ImageBits in `lastCall` and the calls received *)
(* by the image in lockBitsCalls and unlockBitsCalls.                      *)
(***************************************************************************)
EXTENDS Integers, FiniteSets, Sequences, TLC

\* ---------------------------------------------------------------- bounds
\* Number of threads contending for one Document.
NumThreads == 2

\* Largest number of read tickets one thread stacks before it stops asking
\* for more (the code itself has no limit).
MaxTickets == 1

Threads == 1 .. NumThreads

\* m_mutex value when no scoped_lock is alive.
NoThread == 0

\* The calls a thread can make on the gate.
Ops == {"lock(ReadLock)", "lock(WriteLock)", "lockToWrite", "unlockToRead", "unlock"}

VARIABLES
  m_write_lock,   \* Document::m_write_lock
  m_read_locks,   \* Document::m_read_locks
  m_mutex,        \* holder of *m_mutex, or NoThread
  pc,             \* per thread: "idle", "wait", "test", "update", "release", "return"
  op,             \* per thread: the gate call in progress, or "none"
  branch,         \* per thread: the branch of the body chosen by its test
  ret,            \* per thread: value the call in progress is returning
  readTickets,    \* per thread: read tickets the caller holds
  writeTicket,    \* per thread: "none", "locked" (by lock) or "promoted"
  debugBuild,     \* TRUE when ASSERT is compiled in
  aborted,        \* TRUE once a failed ASSERT has aborted the program
  misused,        \* TRUE once a call was made outside its precondition
  document,       \* the Document's fields outside the gate
  documentCopy,   \* the Document returned by duplicate(), or NoDocument
  liveSegs,       \* boundary segment blocks allocated and not yet freed
  destroyed,      \* TRUE once ~Document has run on the Document
  bits,           \* the ImageBits objects
  lastCall,       \* the last call on an ImageBits and what it returned
  guards,         \* the LockImageBits objects
  lockBitsCalls,  \* calls of Image::lockBits that returned
  unlockBitsCalls \* calls of Image::unlockBits

gate == <<m_write_lock, m_read_locks>>
docVars == <<document, documentCopy, liveSegs, destroyed>>
bitsVars == <<bits, lastCall, guards, lockBitsCalls, unlockBitsCalls>>
vars == <<m_write_lock, m_read_locks, m_mutex, pc, op, branch, ret,
          readTickets, writeTicket, debugBuild, aborted, misused,
          docVars, bitsVars>>

\* ------------------------------------------------- bodies of the operations

\* Mutants of Document::lock: a condition of the switch is dropped.
lock_branch_WriteIgnoresReaders(lockType, w, r) ==
  IF lockType = "ReadLock"
    THEN (IF ~w THEN "read_ok" ELSE "fail")
    ELSE (IF ~w THEN "write_ok" ELSE "fail")

lock_branch_ReadIgnoresWriter(lockType, w, r) ==
  IF lockType = "ReadLock"
    THEN "read_ok"
    ELSE (IF r = 0 /\ ~w THEN "write_ok" ELSE "fail")

lock_branch_WriteIgnoresWriter(lockType, w, r) ==
  IF lockType = "ReadLock"
    THEN (IF ~w THEN "read_ok" ELSE "fail")
    ELSE (IF r = 0 THEN "write_ok" ELSE "fail")

\* Document::lock: the branch taken by the switch.
lock_branch(lockType, w, r) ==
  IF lockType = "ReadLock"
    THEN (IF ~w THEN "read_ok" ELSE "fail")
    ELSE (IF r = 0 /\ ~w THEN "write_ok" ELSE "fail")

\* Mutant of Document::lockToWrite: any number of readers may promote.
lockToWrite_branch_AnyReaders(w, r) ==
  IF r >= 1 THEN "promote" ELSE "fail"

\* Document::lockToWrite: the branch taken by the if.
lockToWrite_branch(w, r) ==
  IF r = 1 THEN "promote" ELSE "fail"

\* Document::unlockToRead: straight-line code.
unlockToRead_branch(w, r) == "demote"

\* Mutant of Document::unlock: the write lock is never cleared.
unlock_branch_NeverClearsWrite(w, r) ==
  IF r > 0 THEN "dec_read" ELSE "nothing"

\* Document::unlock: the branch taken by the if / else if / else.
unlock_branch(w, r) ==
  IF w THEN "clear_write"
  ELSE IF r > 0 THEN "dec_read"
  ELSE "nothing"

\* The branch a call takes when it tests the gate fields (w, r).
BranchOf(o, w, r) ==
  CASE o = "lock(ReadLock)"  -> lock_branch("ReadLock", w, r)
    [] o = "lock(WriteLock)" -> lock_branch("WriteLock", w, r)
    [] o = "lockToWrite"     -> lockToWrite_branch(w, r)
    [] o = "unlockToRead"    -> unlockToRead_branch(w, r)
    [] o = "unlock"          -> unlock_branch(w, r)

\* TRUE when an ASSERT of the call's body is false for the gate fields (w, r).
AssertFails(o, w, r) ==
  CASE o = "lockToWrite"  -> (r = 1 /\ w)        \* ASSERT(!m_write_lock)
    [] o = "unlockToRead" -> (r # 0 \/ ~w)       \* ASSERT(m_read_locks == 0); ASSERT(m_write_lock)
    [] o = "unlock"       -> (~w /\ r = 0)       \* ASSERT(false)
    [] OTHER              -> FALSE

\* Mutant of Document::unlockToRead: m_read_locks = 1 is forgotten.
Apply_DemoteLosesReader(b, w, r) ==
  CASE b = "read_ok"     -> [w |-> w,     r |-> r + 1, ret |-> "true"]
    [] b = "write_ok"    -> [w |-> TRUE,  r |-> r,     ret |-> "true"]
    [] b = "promote"     -> [w |-> TRUE,  r |-> 0,     ret |-> "true"]
    [] b = "demote"      -> [w |-> FALSE, r |-> r,     ret |-> "void"]
    [] b = "clear_write" -> [w |-> FALSE, r |-> r,     ret |-> "void"]
    [] b = "dec_read"    -> [w |-> w,     r |-> r - 1, ret |-> "void"]
    [] b = "nothing"     -> [w |-> w,     r |-> r,     ret |-> "void"]
    [] b = "fail"        -> [w |-> w,     r |-> r,     ret |-> "false"]

\* Mutant of Document::unlock: one unlock releases every reader.
Apply_UnlockClearsReaders(b, w, r) ==
  CASE b = "read_ok"     -> [w |-> w,     r |-> r + 1, ret |-> "true"]
    [] b = "write_ok"    -> [w |-> TRUE,  r |-> r,     ret |-> "true"]
    [] b = "promote"     -> [w |-> TRUE,  r |-> 0,     ret |-> "true"]
    [] b = "demote"      -> [w |-> FALSE, r |-> 1,     ret |-> "void"]
    [] b = "clear_write" -> [w |-> FALSE, r |-> r,     ret |-> "void"]
    [] b = "dec_read"    -> [w |-> w,     r |-> 0,     ret |-> "void"]
    [] b = "nothing"     -> [w |-> w,     r |-> r,     ret |-> "void"]
    [] b = "fail"        -> [w |-> w,     r |-> r,     ret |-> "false"]

\* The assignments and the return value of a branch, applied to (w, r).
Apply(b, w, r) ==
  CASE b = "read_ok"     -> [w |-> w,     r |-> r + 1, ret |-> "true"]
    [] b = "write_ok"    -> [w |-> TRUE,  r |-> r,     ret |-> "true"]
    [] b = "promote"     -> [w |-> TRUE,  r |-> 0,     ret |-> "true"]
    [] b = "demote"      -> [w |-> FALSE, r |-> 1,     ret |-> "void"]
    [] b = "clear_write" -> [w |-> FALSE, r |-> r,     ret |-> "void"]
    [] b = "dec_read"    -> [w |-> w,     r |-> r - 1, ret |-> "void"]
    [] b = "nothing"     -> [w |-> w,     r |-> r,     ret |-> "void"]
    [] b = "fail"        -> [w |-> w,     r |-> r,     ret |-> "false"]

\* ------------------------------------------------------------ the callers

\* The tickets a caller holds after a call that returned rv.
TicketsAfter(o, rv, rt, wt) ==
  CASE o = "lock(ReadLock)" /\ rv = "true"  -> [r |-> rt + 1, w |-> wt]
    [] o = "lock(WriteLock)" /\ rv = "true" -> [r |-> rt, w |-> "locked"]
    [] o = "lockToWrite" /\ rv = "true"     -> [r |-> IF rt > 0 THEN rt - 1 ELSE 0, w |-> "promoted"]
    [] o = "unlockToRead"                   -> [r |-> IF wt # "none" THEN rt + 1 ELSE rt, w |-> "none"]
    [] o = "unlock"                         ->
         IF wt # "none" THEN [r |-> rt, w |-> "none"]
         ELSE [r |-> IF rt > 0 THEN rt - 1 ELSE 0, w |-> wt]
    [] OTHER                                -> [r |-> rt, w |-> wt]

\* The calls the model lets thread t make: a caller stops collecting read
\* tickets at MaxTickets.
WithinBounds(t, o) ==
  o \in {"lock(ReadLock)", "unlockToRead"} => readTickets[t] < MaxTickets

\* A caller that respects the preconditions of the gate operations.
Disciplined(t, o) ==
  CASE o = "lock(ReadLock)"  -> TRUE
    [] o = "lock(WriteLock)" -> TRUE
    [] o = "lockToWrite"     -> readTickets[t] >= 1 /\ writeTicket[t] = "none"
    [] o = "unlockToRead"    -> writeTicket[t] # "none"
    [] o = "unlock"          -> readTickets[t] >= 1 \/ writeTicket[t] # "none"

\* Any call, respecting its precondition or not: a run is followed up to
\* its first call outside a precondition and the return of the calls then
\* in progress (what callers do after a violated precondition is not part
\* of any contract).
Undisciplined(t, o) ==
  ~misused

\* ------------------------------------------------ Document: other fields

NULL == "NULL"

\* documentCopy before duplicate() has returned a Document.
NoDocument == [null |-> TRUE]

\* A raster::Mask as the Document uses it: the address of the object, and
\* its content ("empty": isEmpty() is true).
MaskContents == {"empty", "A", "B"}
MaskAddrs == {"mask1", "mask2", "mask3"}
NullMask == [obj |-> NULL]

\* new Mask() / new Mask(*mask) at address addr.
Mask_new(addr, content) == [obj |-> addr, content |-> content]

Mask_isEmpty(mask) == mask.content = "empty"

\* mask->bounds(), as <<x, y, w, h>>.
Mask_bounds(mask) ==
  CASE mask.content = "empty" -> <<0, 0, 0, 0>>
    [] mask.content = "A"     -> <<0, 0, 1, 1>>
    [] mask.content = "B"     -> <<1, 1, 2, 2>>

\* The masks callers pass to setMask and generateMaskBoundaries.
CallerMasks == {Mask_new("caller", c) : c \in MaskContents}

\* gfx::Transformation: the bounds it was made for and the angle it has
\* been given since.
Angles == {0, 90}
Transformation_default == [bounds |-> <<0, 0, 0, 0>>, angle |-> 0]
Transformation_of(bounds) == [bounds |-> bounds, angle |-> 0]

\* find_mask_boundary(mask->bitmap(), &m_bound.nseg, ...) followed by the
\* loop that offsets the segments by mask->bounds(): a new block of
\* segments, those of the mask at its position.
find_mask_boundary(mask) ==
  [seg  |-> IF mask.content = "A" THEN "segments of A" ELSE "segments of B",
   nseg |-> IF mask.content = "A" THEN 4 ELSE 8]

\* The sprite the Document of the model is created with.
SourceSprite == [layers |-> <<"Background", "Layer 1">>, background |-> TRUE]

\* Mutant of the constructor: a new Document starts with a read ticket
\* counted.
Document_ctor_CountsReader(addr, sprite) ==
  [m_associated_to_file |-> FALSE,
   m_undo               |-> "new",
   m_write_lock         |-> FALSE,
   m_read_locks         |-> 1,
   m_mask               |-> Mask_new(addr, "empty"),
   m_maskVisible        |-> TRUE,
   m_transformation     |-> Transformation_default,
   m_bound              |-> [seg |-> NULL, nseg |-> 0],
   sprite               |-> sprite]

\* Document::Document(sprite), its new Mask() placed at addr. m_undo is the
\* checkpoint state of the new DocumentUndo.
Document_ctor(addr, sprite) ==
  [m_associated_to_file |-> FALSE,
   m_undo               |-> "new",
   m_write_lock         |-> FALSE,
   m_read_locks         |-> 0,
   m_mask               |-> Mask_new(addr, "empty"),
   m_maskVisible        |-> TRUE,
   m_transformation     |-> Transformation_default,
   m_bound              |-> [seg |-> NULL, nseg |-> 0],
   sprite               |-> sprite]

\* The fields of a Document held in the variables m_write_lock and
\* m_read_locks rather than in the record `document`.
GateFields == {"m_write_lock", "m_read_locks"}

\* Mutant of markAsSaved's counterpart: the flag is cleared again.
Document_impossibleToBackToSavedState_ClearsFlag(d) ==
  [d EXCEPT !.m_undo = "impossible", !.m_associated_to_file = FALSE]

Document_markAsSaved(d) ==
  [d EXCEPT !.m_undo = "saved", !.m_associated_to_file = TRUE]

Document_impossibleToBackToSavedState(d) ==
  [d EXCEPT !.m_undo = "impossible"]

Document_isMaskVisible(d) ==
  d.m_maskVisible /\ d.m_mask # NullMask /\ ~Mask_isEmpty(d.m_mask)

Document_setMaskVisible(d, visible) ==
  [d EXCEPT !.m_maskVisible = visible]

Document_setTransformation(d, transform) ==
  [d EXCEPT !.m_transformation = transform]

Document_resetTransformation(d) ==
  [d EXCEPT !.m_transformation =
     IF d.m_mask # NullMask
       THEN Transformation_of(Mask_bounds(d.m_mask))
       ELSE Transformation_default]

\* m_mask.reset(new Mask(*mask)), the new Mask placed at addr.
Document_setMask(d, mask, addr) ==
  Document_resetTransformation(
    [d EXCEPT !.m_mask = Mask_new(addr, mask.content),
              !.m_maskVisible = TRUE])

\* Mutant of generateMaskBoundaries: a hidden selection leaves the cached
\* boundary as it was.
Document_generateMaskBoundaries_KeepsHidden(d, mask) ==
  LET hidden   == mask = NullMask /\ ~Document_isMaskVisible(d)
      free     == d.m_bound.seg # NULL /\ ~hidden
      cleared  == IF free THEN [seg |-> NULL, nseg |-> 0] ELSE d.m_bound
      used     == IF mask = NullMask THEN d.m_mask ELSE mask
      computes == ~hidden /\ ~Mask_isEmpty(used)
  IN [d         |-> [d EXCEPT !.m_bound =
                       IF computes THEN find_mask_boundary(used) ELSE cleared],
      freed     |-> IF free THEN 1 ELSE 0,
      allocated |-> IF computes THEN 1 ELSE 0]

\* generateMaskBoundaries(mask), mask = NullMask for the default argument:
\* the Document after the call, and the segment blocks the call has freed
\* and allocated.
Document_generateMaskBoundaries(d, mask) ==
  LET free     == d.m_bound.seg # NULL
      cleared  == IF free THEN [seg |-> NULL, nseg |-> 0] ELSE d.m_bound
      hidden   == mask = NullMask /\ ~Document_isMaskVisible(d)
      used     == IF mask = NullMask THEN d.m_mask ELSE mask
      computes == ~hidden /\ ~Mask_isEmpty(used)
  IN [d         |-> [d EXCEPT !.m_bound =
                       IF computes THEN find_mask_boundary(used) ELSE cleared],
      freed     |-> IF free THEN 1 ELSE 0,
      allocated |-> IF computes THEN 1 ELSE 0]

DuplicateTypes == {"DuplicateExactCopy", "DuplicateWithFlattenLayers"}

\* The sprite of the copy: the layers copied one by one, or one flattened
\* layer, configured as background when the source has a background layer.
Document_duplicateSprite(d, type) ==
  IF type = "DuplicateExactCopy"
    THEN d.sprite
    ELSE [layers |-> <<"Flattened">>, background |-> d.sprite.background]

\* duplicate(type): the Document returned (with the segment blocks its
\* generateMaskBoundaries() has freed and allocated). The new Document's
\* first Mask is placed at ctorAddr, the copy of the source's mask at
\* maskAddr.
Document_duplicate(d, type, ctorAddr, maskAddr) ==
  LET created == Document_ctor(ctorAddr, Document_duplicateSprite(d, type))
      masked  == Document_setMask(created, d.m_mask, maskAddr)
      shown   == [masked EXCEPT !.m_maskVisible = d.m_maskVisible]
  IN Document_generateMaskBoundaries(shown, NullMask)

\* ~Document: the segment blocks it frees. Its ASSERT reads context(),
\* which is NULL for a Document no context holds (the Documents of the
\* model); destroyExtraCel() finds no extra cel.
Document_dtor(d) ==
  [freed |-> IF d.m_bound.seg # NULL THEN 1 ELSE 0]

\* ------------------------------------------- ImageBits and LockImageBits

\* Extents of the one Image of the model.
ImageWidth == 2
ImageHeight == 2

\* Largest value of an int.
INT_MAX == 2147483647
INT_MIN == (-INT_MAX) - 1

\* The coordinates and sizes callers pass: around the extents of the
\* image, and the largest int as an origin.
XCoords == (-1 .. ImageWidth + 1) \cup {INT_MAX}
YCoords == -1 .. ImageHeight + 1
Widths  == -1 .. ImageWidth + 1
Heights == -1 .. ImageHeight + 1
Rects == [x : XCoords, y : YCoords, w : Widths, h : Heights]

\* image->bounds()
Image_bounds == [x |-> 0, y |-> 0, w |-> ImageWidth, h |-> ImageHeight]

\* TRUE when the int addition a + b has no representable result (the
\* behaviour of the program is then undefined).
Overflows(a, b) ==
  \/ b > 0 /\ a > INT_MAX - b
  \/ b < 0 /\ a < INT_MIN - b

\* The values the int comparison a + b <= limit can take.
SumLeq(a, b, limit) ==
  IF Overflows(a, b) THEN BOOLEAN ELSE {a + b <= limit}

\* The values the condition of the constructor's ASSERT can take for
\* ImageBits(image, bounds).
ImageBits_check(bounds) ==
  {bounds.x >= 0 /\ px /\ bounds.y >= 0 /\ py :
     px \in SumLeq(bounds.x, bounds.w, ImageWidth),
     py \in SumLeq(bounds.y, bounds.h, ImageHeight)}

\* gfx::Rect::contains(area) of the rectangle outer.
Rect_contains(outer, area) ==
  /\ area.x >= outer.x /\ area.x + area.w <= outer.x + outer.w
  /\ area.y >= outer.y /\ area.y + area.h <= outer.y + outer.h

\* The ImageBits objects: "a" is made by ImageBits(image, bounds), "b" by
\* the copy constructor; operator= assigns one to the other.
BitsIds == {"a", "b"}
NoBits == [none |-> TRUE]
NoCall == [none |-> TRUE]

\* ImageBits(image, bounds), once its ASSERT has let it through.
ImageBits_ctor(image, bounds) == [m_image |-> image, m_bounds |-> bounds]

\* ImageBits(other) and operator=(other)
ImageBits_copy(other) == [m_image |-> other.m_image, m_bounds |-> other.m_bounds]

\* iterator(image, bounds, x, y): the iterator as it is created.
iterator(image, bounds, x, y) ==
  [m_image |-> image, bounds |-> bounds, x |-> x, y |-> y]

\* TRUE when the corners of the rectangle are representable, so that the
\* iterator functions compute them.
Representable(r) == ~Overflows(r.x, r.w) /\ ~Overflows(r.y, r.h)

ImageBits_begin(b) ==
  iterator(b.m_image, b.m_bounds, b.m_bounds.x, b.m_bounds.y)

\* end(), before the ++it that moves it one step past the last element.
ImageBits_end(b) ==
  iterator(b.m_image, b.m_bounds,
           b.m_bounds.x + b.m_bounds.w - 1, b.m_bounds.y + b.m_bounds.h - 1)

ImageBits_begin_area(b, area) ==
  iterator(b.m_image, area, area.x, area.y)

\* end_area(area), before its ++it.
ImageBits_end_area(b, area) ==
  iterator(b.m_image, area, area.x + area.w - 1, area.y + area.h - 1)

\* The areas callers pass to begin_area and end_area of an ImageBits over
\* bounds: the bounds themselves, moved or resized by one.
Areas(bounds) ==
  {[bounds EXCEPT !.x = ax, !.w = aw] :
     ax \in {bounds.x} \cup (IF bounds.x < INT_MAX THEN {bounds.x + 1} ELSE {}),
     aw \in {bounds.w, bounds.w - 1}}
  \cup {[bounds EXCEPT !.h = bounds.h - 1]}

\* Largest number of unlockBits calls followed on the image.
MaxUnlocks == 2

\* The LockImageBits objects: "g" is made by one of the four constructors,
\* "h" by the copy constructor the compiler generates.
GuardIds == {"g", "h"}
NoGuard == [none |-> TRUE]
LockTypes == {"ReadLock", "WriteLock", "ReadWriteLock"}

\* ------------------------------------------------------------------ Init

Init ==
  /\ m_write_lock = FALSE
  /\ m_read_locks = 0
  /\ m_mutex = NoThread
  /\ pc = [t \in Threads |-> "idle"]
  /\ op = [t \in Threads |-> "none"]
  /\ branch = [t \in Threads |-> "none"]
  /\ ret = [t \in Threads |-> "none"]
  /\ readTickets = [t \in Threads |-> 0]
  /\ writeTicket = [t \in Threads |-> "none"]
  /\ debugBuild \in BOOLEAN
  /\ aborted = FALSE
  /\ misused = FALSE
  /\ document = [f \in DOMAIN Document_ctor("mask1", SourceSprite) \ GateFields |->
                   Document_ctor("mask1", SourceSprite)[f]]
  /\ documentCopy = NoDocument
  /\ liveSegs = 0
  /\ destroyed = FALSE
  /\ bits = [i \in BitsIds |-> NoBits]
  /\ lastCall = NoCall
  /\ guards = [i \in GuardIds |-> NoGuard]
  /\ lockBitsCalls = 0
  /\ unlockBitsCalls = 0

\* --------------------------------------------------------------- actions

\* Thread t calls operation o.
Call(t, o) ==
  /\ ~aborted
  /\ pc[t] = "idle"
  /\ WithinBounds(t, o)
  /\ pc' = [pc EXCEPT ![t] = "wait"]
  /\ op' = [op EXCEPT ![t] = o]
  /\ misused' = (misused \/ ~Disciplined(t, o))
  /\ UNCHANGED <<m_write_lock, m_read_locks, m_mutex, branch, ret,
                 readTickets, writeTicket, debugBuild, aborted>>
  /\ UNCHANGED <<docVars, bitsVars>>

\* Mutant of scoped_lock: the body is entered without waiting for the mutex.
AcquireMutex_NoExclusion(t) ==
  /\ ~aborted
  /\ pc[t] = "wait"
  /\ m_mutex' = t
  /\ pc' = [pc EXCEPT ![t] = "test"]
  /\ UNCHANGED <<m_write_lock, m_read_locks, op, branch, ret,
                 readTickets, writeTicket, debugBuild, aborted, misused>>
  /\ UNCHANGED <<docVars, bitsVars>>

\* scoped_lock lock(*m_mutex): waits until the mutex is free.
AcquireMutex(t) ==
  /\ ~aborted
  /\ pc[t] = "wait"
  /\ m_mutex = NoThread
  /\ m_mutex' = t
  /\ pc' = [pc EXCEPT ![t] = "test"]
  /\ UNCHANGED <<m_write_lock, m_read_locks, op, branch, ret,
                 readTickets, writeTicket, debugBuild, aborted, misused>>
  /\ UNCHANGED <<docVars, bitsVars>>

\* Mutant of the bodies: the scoped_lock ends right after the test.
Test_DropsMutex(t) ==
  /\ ~aborted
  /\ pc[t] = "test"
  /\ branch' = [branch EXCEPT ![t] = BranchOf(op[t], m_write_lock, m_read_locks)]
  /\ pc' = [pc EXCEPT ![t] = "update"]
  /\ m_mutex' = NoThread
  /\ UNCHANGED <<m_write_lock, m_read_locks, op, ret, aborted,
                 readTickets, writeTicket, debugBuild, misused>>
  /\ UNCHANGED <<docVars, bitsVars>>

\* Mutant of the bodies: a call that cannot get its ticket waits for it.
Test_WaitsForTicket(t) ==
  /\ ~aborted
  /\ pc[t] = "test"
  /\ BranchOf(op[t], m_write_lock, m_read_locks) # "fail"
  /\ branch' = [branch EXCEPT ![t] = BranchOf(op[t], m_write_lock, m_read_locks)]
  /\ pc' = [pc EXCEPT ![t] = "update"]
  /\ UNCHANGED <<m_write_lock, m_read_locks, m_mutex, op, ret, aborted,
                 readTickets, writeTicket, debugBuild, misused>>
  /\ UNCHANGED <<docVars, bitsVars>>

\* The conditions and ASSERTs of the body read the gate fields.
Test(t) ==
  /\ ~aborted
  /\ pc[t] = "test"
  /\ IF debugBuild /\ AssertFails(op[t], m_write_lock, m_read_locks)
       THEN /\ aborted' = TRUE
            /\ UNCHANGED <<pc, branch>>
       ELSE /\ branch' = [branch EXCEPT ![t] = BranchOf(op[t], m_write_lock, m_read_locks)]
            /\ pc' = [pc EXCEPT ![t] = "update"]
            /\ UNCHANGED aborted
  /\ UNCHANGED <<m_write_lock, m_read_locks, m_mutex, op, ret,
                 readTickets, writeTicket, debugBuild, misused>>
  /\ UNCHANGED <<docVars, bitsVars>>

\* The assignments of the chosen branch and its return statement; the
\* caller's tickets follow the value being returned.
Update(t) ==
  /\ ~aborted
  /\ pc[t] = "update"
  /\ LET res == Apply(branch[t], m_write_lock, m_read_locks)
         tk  == TicketsAfter(op[t], res.ret, readTickets[t], writeTicket[t])
     IN
       /\ m_write_lock' = res.w
       /\ m_read_locks' = res.r
       /\ ret' = [ret EXCEPT ![t] = res.ret]
       /\ readTickets' = [readTickets EXCEPT ![t] = tk.r]
       /\ writeTicket' = [writeTicket EXCEPT ![t] = tk.w]
  /\ pc' = [pc EXCEPT ![t] = "release"]
  /\ UNCHANGED <<m_mutex, op, branch, debugBuild, aborted, misused>>
  /\ UNCHANGED <<docVars, bitsVars>>

\* ~scoped_lock: the mutex is released; the return value is on its way to
\* the caller.
ReleaseMutex(t) ==
  /\ ~aborted
  /\ pc[t] = "release"
  /\ m_mutex' = NoThread
  /\ pc' = [pc EXCEPT ![t] = "return"]
  /\ UNCHANGED <<m_write_lock, m_read_locks, op, branch, ret,
                 readTickets, writeTicket, debugBuild, aborted, misused>>
  /\ UNCHANGED <<docVars, bitsVars>>

\* The call returns to the caller.
Return(t) ==
  /\ ~aborted
  /\ pc[t] = "return"
  /\ pc' = [pc EXCEPT ![t] = "idle"]
  /\ op' = [op EXCEPT ![t] = "none"]
  /\ branch' = [branch EXCEPT ![t] = "none"]
  /\ ret' = [ret EXCEPT ![t] = "none"]
  /\ UNCHANGED <<m_write_lock, m_read_locks, m_mutex, readTickets, writeTicket,
                 debugBuild, aborted, misused>>
  /\ UNCHANGED <<docVars, bitsVars>>

\* Callers that respect the preconditions.
Next ==
  \E t \in Threads :
    \/ \E o \in Ops : Disciplined(t, o) /\ Call(t, o)
    \/ AcquireMutex(t)
    \/ Test(t)
    \/ Update(t)
    \/ ReleaseMutex(t)
    \/ Return(t)

Spec == Init /\ [][Next]_vars

\* Callers that may also violate the preconditions.
NextAny ==
  \E t \in Threads :
    \/ \E o \in Ops : Undisciplined(t, o) /\ Call(t, o)
    \/ AcquireMutex(t)
    \/ Test(t)
    \/ Update(t)
    \/ ReleaseMutex(t)
    \/ Return(t)

SpecAny == Init /\ [][NextAny]_vars

\* Threads that only ever call lock(WriteLock) and never release.
NextWriters ==
  \E t \in Threads :
    \/ Call(t, "lock(WriteLock)")
    \/ AcquireMutex(t)
    \/ Test(t)
    \/ Update(t)
    \/ ReleaseMutex(t)
    \/ Return(t)

SpecWriters == Init /\ [][NextWriters]_vars

\* The scheduler lets every call in progress take its next step, and a
\* thread waiting for the mutex gets it when it is free again and again.
Fairness ==
  \A t \in Threads :
    /\ WF_vars(Test(t) \/ Update(t) \/ ReleaseMutex(t) \/ Return(t))
    /\ SF_vars(AcquireMutex(t))

SpecLive == Spec /\ Fairness

\* ---------------------------------------------- operations of a Document

\* The thread that works on the Document in SpecDoc.
DocThreads == {1}

\* Thread t is between two calls on a Document that still exists.
DocIdle(t) == ~aborted /\ ~destroyed /\ pc[t] = "idle"

\* The addresses no Mask lives at.
FreeMaskAddrs ==
  MaskAddrs \ ({document.m_mask.obj} \cup
               (IF documentCopy = NoDocument THEN {} ELSE {documentCopy.m_mask.obj}))

gateVarsNoAbort == <<m_write_lock, m_read_locks, m_mutex, pc, op, branch, ret,
                     readTickets, writeTicket, debugBuild, misused>>
gateVars == <<gateVarsNoAbort, aborted>>

markAsSaved(t) ==
  /\ DocIdle(t)
  /\ document' = Document_markAsSaved(document)
  /\ UNCHANGED <<gateVars, documentCopy, liveSegs, destroyed, bitsVars>>

impossibleToBackToSavedState(t) ==
  /\ DocIdle(t)
  /\ document' = Document_impossibleToBackToSavedState(document)
  /\ UNCHANGED <<gateVars, documentCopy, liveSegs, destroyed, bitsVars>>

setMask(t, mask) ==
  /\ DocIdle(t)
  /\ \E addr \in FreeMaskAddrs : document' = Document_setMask(document, mask, addr)
  /\ UNCHANGED <<gateVars, documentCopy, liveSegs, destroyed, bitsVars>>

setMaskVisible(t, visible) ==
  /\ DocIdle(t)
  /\ document' = Document_setMaskVisible(document, visible)
  /\ UNCHANGED <<gateVars, documentCopy, liveSegs, destroyed, bitsVars>>

\* setTransformation(transform) with the current transformation turned to
\* the given angle.
setTransformation(t, angle) ==
  /\ DocIdle(t)
  /\ document' = Document_setTransformation(
                   document, [document.m_transformation EXCEPT !.angle = angle])
  /\ UNCHANGED <<gateVars, documentCopy, liveSegs, destroyed, bitsVars>>

resetTransformation(t) ==
  /\ DocIdle(t)
  /\ document' = Document_resetTransformation(document)
  /\ UNCHANGED <<gateVars, documentCopy, liveSegs, destroyed, bitsVars>>

generateMaskBoundaries(t, mask) ==
  /\ DocIdle(t)
  /\ LET res == Document_generateMaskBoundaries(document, mask)
     IN /\ document' = res.d
        /\ liveSegs' = liveSegs - res.freed + res.allocated
  /\ UNCHANGED <<gateVars, documentCopy, destroyed, bitsVars>>

\* duplicate(type); the caller keeps one copy at a time.
duplicate(t, type) ==
  /\ DocIdle(t)
  /\ documentCopy = NoDocument
  /\ \E ctorAddr \in FreeMaskAddrs :
       \E maskAddr \in FreeMaskAddrs \ {ctorAddr} :
         LET res == Document_duplicate(document, type, ctorAddr, maskAddr)
         IN /\ documentCopy' = res.d
            /\ liveSegs' = liveSegs - res.freed + res.allocated
  /\ UNCHANGED <<gateVars, document, destroyed, bitsVars>>

\* delete of the Document duplicate() returned.
deleteCopy(t) ==
  /\ DocIdle(t)
  /\ documentCopy # NoDocument
  /\ liveSegs' = liveSegs - Document_dtor(documentCopy).freed
  /\ documentCopy' = NoDocument
  /\ UNCHANGED <<gateVars, document, destroyed, bitsVars>>

\* delete of the Document: ~Document runs, whatever the gate fields are.
destroy(t) ==
  /\ DocIdle(t)
  /\ liveSegs' = liveSegs - Document_dtor(document).freed
  /\ destroyed' = TRUE
  /\ UNCHANGED <<gateVars, document, documentCopy, bitsVars>>

\* One thread works on the Document: gate calls within their
\* preconditions, and the other operations between them.
NextDoc ==
  \E t \in DocThreads :
    \/ \E o \in Ops : ~destroyed /\ Disciplined(t, o) /\ Call(t, o)
    \/ ~destroyed /\ AcquireMutex(t)
    \/ ~destroyed /\ Test(t)
    \/ ~destroyed /\ Update(t)
    \/ ~destroyed /\ ReleaseMutex(t)
    \/ ~destroyed /\ Return(t)
    \/ markAsSaved(t)
    \/ impossibleToBackToSavedState(t)
    \/ \E mask \in CallerMasks : setMask(t, mask)
    \/ \E visible \in BOOLEAN : setMaskVisible(t, visible)
    \/ \E angle \in Angles : setTransformation(t, angle)
    \/ resetTransformation(t)
    \/ \E mask \in CallerMasks \cup {NullMask} : generateMaskBoundaries(t, mask)
    \/ \E type \in DuplicateTypes : duplicate(t, type)
    \/ deleteCopy(t)
    \/ destroy(t)

SpecDoc == Init /\ [][NextDoc]_vars

\* ------------------------------------------------ operations on ImageBits

docAndGuards == <<gateVarsNoAbort, docVars, guards, lockBitsCalls>>

\* ImageBits(image, bounds) constructs object i, for any bounds: a failed
\* ASSERT aborts a build that has ASSERT compiled in.
ImageBits_construct(i) ==
  /\ ~aborted
  /\ bits[i] = NoBits
  /\ \E bounds \in Rects : \E ok \in ImageBits_check(bounds) :
       IF debugBuild /\ ~ok
         THEN /\ aborted' = TRUE
              /\ UNCHANGED bits
         ELSE /\ bits' = [bits EXCEPT ![i] = ImageBits_ctor("image", bounds)]
              /\ UNCHANGED aborted
  /\ lastCall' = NoCall
  /\ UNCHANGED <<docAndGuards, unlockBitsCalls>>

\* ImageBits(other) constructs object i from object j.
ImageBits_copyConstruct(i, j) ==
  /\ ~aborted
  /\ bits[i] = NoBits
  /\ bits[j] # NoBits
  /\ bits' = [bits EXCEPT ![i] = ImageBits_copy(bits[j])]
  /\ lastCall' = NoCall
  /\ UNCHANGED <<docAndGuards, aborted, unlockBitsCalls>>

\* operator=: object j is assigned to object i.
ImageBits_assign(i, j) ==
  /\ ~aborted
  /\ bits[i] # NoBits
  /\ bits[j] # NoBits
  /\ bits' = [bits EXCEPT ![i] = ImageBits_copy(bits[j])]
  /\ lastCall' = NoCall
  /\ UNCHANGED <<docAndGuards, aborted, unlockBitsCalls>>

\* begin() or end() of object i returns an iterator.
ImageBits_iterate(i, fn) ==
  /\ ~aborted
  /\ bits[i] # NoBits
  /\ Representable(bits[i].m_bounds)
  /\ lastCall' = [call |-> fn, of |-> i,
                  it |-> IF fn = "begin" THEN ImageBits_begin(bits[i])
                                         ELSE ImageBits_end(bits[i])]
  /\ UNCHANGED <<docAndGuards, aborted, bits, unlockBitsCalls>>

\* begin_area(area) or end_area(area) of object i, for an area near its
\* bounds.
ImageBits_iterateArea(i, fn) ==
  /\ ~aborted
  /\ bits[i] # NoBits
  /\ Representable(bits[i].m_bounds)
  /\ \E area \in Areas(bits[i].m_bounds) :
       /\ Representable(area)
       /\ IF debugBuild /\ ~Rect_contains(bits[i].m_bounds, area)
            THEN /\ aborted' = TRUE
                 /\ lastCall' = NoCall
            ELSE /\ lastCall' = [call |-> fn, of |-> i,
                                 it |-> IF fn = "begin_area"
                                          THEN ImageBits_begin_area(bits[i], area)
                                          ELSE ImageBits_end_area(bits[i], area)]
                 /\ UNCHANGED aborted
  /\ UNCHANGED <<docAndGuards, bits, unlockBitsCalls>>

\* unlock() of object i; the call returns with `released` telling whether
\* it has called unlockBits.
ImageBits_unlock(i) ==
  /\ ~aborted
  /\ bits[i] # NoBits
  /\ IF bits[i].m_image # NULL
       THEN /\ unlockBitsCalls < MaxUnlocks
            /\ unlockBitsCalls' = unlockBitsCalls + 1
            /\ bits' = [bits EXCEPT ![i].m_image = NULL]
       ELSE UNCHANGED <<unlockBitsCalls, bits>>
  /\ lastCall' = [call |-> "unlock", of |-> i, released |-> bits[i].m_image # NULL]
  /\ UNCHANGED <<docAndGuards, aborted>>

NextBits ==
  \/ ImageBits_construct("a")
  \/ ImageBits_copyConstruct("b", "a")
  \/ \E i \in BitsIds : \E j \in BitsIds \ {i} : ImageBits_assign(i, j)
  \/ \E i \in BitsIds : \E fn \in {"begin", "end"} : ImageBits_iterate(i, fn)
  \/ \E i \in BitsIds : \E fn \in {"begin_area", "end_area"} : ImageBits_iterateArea(i, fn)
  \/ \E i \in BitsIds : ImageBits_unlock(i)

SpecBits == Init /\ [][NextBits]_vars

\* -------------------------------------------- operations on LockImageBits

docAndBits == <<gateVarsNoAbort, docVars, bits>>

\* One of the four constructors makes object g: image->lockBits(lockType,
\* bounds) returns ImageBits(image, bounds), with ReadLock and
\* image->bounds() where the constructor takes no such argument.
LockImageBits_construct(g) ==
  /\ ~aborted
  /\ guards[g] = NoGuard
  /\ \E lockType \in LockTypes : \E bounds \in Rects \cup {Image_bounds} :
       /\ \E ok \in ImageBits_check(bounds) :
            IF debugBuild /\ ~ok
              THEN /\ aborted' = TRUE
                   /\ UNCHANGED <<guards, lockBitsCalls>>
              ELSE /\ guards' = [guards EXCEPT ![g] =
                                   [m_bits   |-> ImageBits_ctor("image", bounds),
                                    lockType |-> lockType,
                                    ended    |-> FALSE]]
                   /\ lockBitsCalls' = lockBitsCalls + 1
                   /\ UNCHANGED aborted
  /\ lastCall' = NoCall
  /\ UNCHANGED <<docAndBits, unlockBitsCalls>>

\* The copy constructor the compiler generates makes object h from the
\* living object g: m_bits is copied by ImageBits(const ImageBits&).
LockImageBits_copyConstruct(h, g) ==
  /\ ~aborted
  /\ guards[h] = NoGuard
  /\ guards[g] # NoGuard
  /\ ~guards[g].ended
  /\ guards' = [guards EXCEPT ![h] =
                  [guards[g] EXCEPT !.m_bits = ImageBits_copy(guards[g].m_bits)]]
  /\ lastCall' = NoCall
  /\ UNCHANGED <<docAndBits, aborted, lockBitsCalls, unlockBitsCalls>>

\* begin() or end() of object g: those of its m_bits.
LockImageBits_iterate(g, fn) ==
  /\ ~aborted
  /\ guards[g] # NoGuard
  /\ ~guards[g].ended
  /\ Representable(guards[g].m_bits.m_bounds)
  /\ lastCall' = [call |-> fn, of |-> g,
                  it |-> IF fn = "begin" THEN ImageBits_begin(guards[g].m_bits)
                                         ELSE ImageBits_end(guards[g].m_bits)]
  /\ UNCHANGED <<docAndBits, aborted, guards, lockBitsCalls, unlockBitsCalls>>

\* ~LockImageBits: the scope of object g ends, by whatever path.
LockImageBits_dtor(g) ==
  /\ ~aborted
  /\ guards[g] # NoGuard
  /\ ~guards[g].ended
  /\ unlockBitsCalls' = unlockBitsCalls + 1
  /\ guards' = [guards EXCEPT ![g].ended = TRUE]
  /\ lastCall' = NoCall
  /\ UNCHANGED <<docAndBits, aborted, lockBitsCalls>>

NextLockBits ==
  \/ LockImageBits_construct("g")
  \/ LockImageBits_copyConstruct("h", "g")
  \/ \E g \in GuardIds : \E fn \in {"begin", "end"} : LockImageBits_iterate(g, fn)
  \/ \E g \in GuardIds : LockImageBits_dtor(g)

SpecLockBits == Init /\ [][NextLockBits]_vars

TypeOK ==
  /\ m_write_lock \in BOOLEAN
  /\ m_read_locks \in Nat
  /\ m_mutex \in Threads \cup {NoThread}
  /\ \A t \in Threads : pc[t] \in {"idle", "wait", "test", "update", "release", "return"}

\* ---------------------------------------------------------------- claims

\* The step in which thread t's call assigns the gate fields and fixes its
\* return value.
UpdateStep(t) == pc[t] = "update" /\ pc'[t] = "release"

\* The threads that hold the write ticket.
Writers == {t \in Threads : writeTicket[t] # "none"}

\* The number of read tickets held, all threads together, in ticket map f.
ReadTicketsOf(f) ==
  Cardinality({p \in Threads \X (1 .. MaxTickets + 1) : p[2] <= f[p[1]]})

\* The whole body of a call executed as one atomic step on the gate (w, r).
AtomicCall(o, w, r) == Apply(BranchOf(o, w, r), w, r)

\* C1: with callers that respect the preconditions, a writer never coexists
\* with a reader and there is never more than one writer, both in the gate
\* fields and in the tickets the callers hold.
C1_WriterExcludesReaders ==
  /\ m_write_lock => m_read_locks = 0
  /\ m_read_locks > 0 => ~m_write_lock
  /\ Cardinality(Writers) <= 1
  /\ Writers # {} => \A t \in Threads : readTickets[t] = 0

C1_Witness ==
  /\ m_write_lock
  /\ \E t \in Threads : pc[t] = "return" /\ op[t] = "lock(ReadLock)" /\ ret[t] = "false"

\* C2: lock(ReadLock) returns true and adds exactly one to m_read_locks iff
\* m_write_lock is false when it runs; otherwise it returns false and leaves
\* the gate fields alone. The reader count already reached plays no role.
C2_LockRead ==
  [][\A t \in Threads :
       (UpdateStep(t) /\ op[t] = "lock(ReadLock)") =>
         IF ~m_write_lock
           THEN /\ ret'[t] = "true"
                /\ m_read_locks' = m_read_locks + 1
                /\ m_write_lock' = m_write_lock
           ELSE /\ ret'[t] = "false"
                /\ UNCHANGED gate]_vars

C2_Witness ==
  \E t \in Threads :
    /\ pc[t] = "release" /\ op[t] = "lock(ReadLock)" /\ ret[t] = "true"
    /\ m_read_locks = 2

\* C3: lock(WriteLock) returns true and sets m_write_lock iff m_read_locks = 0
\* and m_write_lock = false when it runs; otherwise it returns false and
\* leaves the gate fields alone. A caller that already holds the write ticket
\* gets false.
C3_LockWrite ==
  [][\A t \in Threads :
       (UpdateStep(t) /\ op[t] = "lock(WriteLock)") =>
         /\ IF m_read_locks = 0 /\ ~m_write_lock
              THEN /\ ret'[t] = "true"
                   /\ m_write_lock' = TRUE
                   /\ m_read_locks' = m_read_locks
              ELSE /\ ret'[t] = "false"
                   /\ UNCHANGED gate
         /\ writeTicket[t] # "none" => ret'[t] = "false"]_vars

C3_Witness ==
  \E t \in Threads :
    /\ pc[t] = "release" /\ op[t] = "lock(WriteLock)" /\ ret[t] = "false"
    /\ writeTicket[t] # "none"

\* C4: lockToWrite() returns true iff m_read_locks = 1 and m_write_lock =
\* false when it runs, and then sets m_read_locks = 0 and m_write_lock = true
\* in one step; with zero or with two or more readers it returns false and
\* leaves the gate fields alone.
C4_LockToWrite ==
  [][\A t \in Threads :
       (UpdateStep(t) /\ op[t] = "lockToWrite") =>
         IF m_read_locks = 1 /\ ~m_write_lock
           THEN /\ ret'[t] = "true"
                /\ m_read_locks' = 0
                /\ m_write_lock' = TRUE
           ELSE /\ ret'[t] = "false"
                /\ UNCHANGED gate]_vars

C4_Witness ==
  \E t \in Threads :
    /\ pc[t] = "release" /\ op[t] = "lockToWrite" /\ ret[t] = "false"
    /\ m_read_locks >= 2

\* C5: a promotion happens from the gate state (1 reader, no writer); while
\* the promoted ticket is held no other thread gets any ticket; and the
\* holder's unlockToRead() puts the gate back to 1 reader and no writer.
C5_PromoteThenDemote ==
  [][\A t \in Threads :
       /\ (writeTicket[t] = "none" /\ writeTicket'[t] = "promoted") =>
            (m_read_locks = 1 /\ ~m_write_lock)
       /\ writeTicket[t] = "promoted" =>
            /\ \A u \in Threads \ {t} :
                 readTickets'[u] = 0 /\ writeTicket'[u] = "none"
            /\ (UpdateStep(t) /\ op[t] = "unlockToRead") =>
                 (m_read_locks' = 1 /\ ~m_write_lock' /\ readTickets'[t] = 1)]_vars

C5_Witness ==
  \E t \in Threads :
    /\ pc[t] = "update" /\ op[t] = "unlockToRead" /\ writeTicket[t] = "promoted"
    /\ \E u \in Threads \ {t} : pc[u] = "return" /\ ret[u] = "false"

\* C6: threads that concurrently call lock(WriteLock) on a fresh gate, with
\* nobody releasing: the first call to run returns true, every other call
\* returns false, so exactly one write ticket is ever handed out.
C6_OneWriterWins ==
  [][\A t \in Threads :
       UpdateStep(t) =>
         /\ ret'[t] = (IF Writers = {} THEN "true" ELSE "false")
         /\ Cardinality({u \in Threads : writeTicket'[u] # "none"}) = 1]_vars

C6_Witness ==
  \E t \in Threads : \E u \in Threads \ {t} :
    /\ pc[t] = "return" /\ ret[t] = "true"
    /\ pc[u] = "release" /\ ret[u] = "false"

\* C7: lock(ReadLock) succeeds whenever no write ticket is out and then
\* m_read_locks counts the read tickets held (N readers on a fresh gate give
\* m_read_locks = N); unlock() by a reader takes exactly one off; and
\* lock(WriteLock) returns false while any read ticket is held, true only
\* once none is.
C7_ReadersBlockWriter ==
  [][\A t \in Threads :
       UpdateStep(t) =>
         /\ (op[t] = "lock(ReadLock)" /\ Writers = {}) =>
              (ret'[t] = "true" /\ m_read_locks' = ReadTicketsOf(readTickets'))
         /\ (op[t] = "unlock" /\ readTickets[t] > 0) =>
              (m_read_locks' = m_read_locks - 1 /\
               m_read_locks' = ReadTicketsOf(readTickets'))
         /\ op[t] = "lock(WriteLock)" =>
              /\ ReadTicketsOf(readTickets) > 0 =>
                   (ret'[t] = "false" /\ UNCHANGED gate)
              /\ ret'[t] = "true" => ReadTicketsOf(readTickets) = 0]_vars

C7_Witness ==
  /\ \A t \in Threads : readTickets[t] = 1
  /\ m_read_locks = NumThreads
  /\ \E t \in Threads :
       pc[t] = "release" /\ op[t] = "lock(WriteLock)" /\ ret[t] = "false"

\* C8: the gate fields are read and written only by the thread that holds
\* m_mutex, and every step of the split model that changes the gate fields or
\* fixes a return value is one whole call of the atomic model, applied to
\* the gate fields as they are at that step.
C8_SplitRefinesAtomic ==
  /\ [](\A t \in Threads : pc[t] \in {"test", "update", "release"} => m_mutex = t)
  /\ [][/\ \A t \in Threads :
             UpdateStep(t) =>
               LET a == AtomicCall(op[t], m_write_lock, m_read_locks) IN
                 /\ m_write_lock' = a.w
                 /\ m_read_locks' = a.r
                 /\ ret'[t] = a.ret
        /\ (\A t \in Threads : ~UpdateStep(t)) => UNCHANGED gate]_vars

C8_Witness ==
  \E t \in Threads : \E u \in Threads \ {t} :
    /\ pc[t] = "update" /\ branch[t] = "write_ok"
    /\ pc[u] = "wait" /\ op[u] = "lock(WriteLock)"

\* C9: every call in progress returns, whatever the gate fields are and
\* whatever tickets the other threads hold.
C9_EveryCallReturns ==
  \A t \in Threads : (pc[t] # "idle") ~> (pc[t] = "idle")

C9_Witness ==
  \E t \in Threads : \E u \in Threads \ {t} :
    /\ pc[t] = "return" /\ op[t] = "lock(WriteLock)" /\ ret[t] = "false"
    /\ readTickets[u] > 0

\* C10: in a build with ASSERT compiled in, a release or demote call made
\* outside its required state is stopped by an assertion before it assigns
\* the gate fields: it never gets as far as its assignments.
C10_MisuseHitsAssertion ==
  \A t \in Threads :
    ~ /\ debugBuild
      /\ pc[t] = "update"
      /\ op[t] \in {"unlock", "unlockToRead"}
      /\ ~Disciplined(t, op[t])

\* C11: ~Document does not run to completion while tickets are outstanding:
\* a Document that has been destroyed had an empty gate (m_read_locks = 0
\* and m_write_lock = false) when its destructor ran.
C11_DestructorNeedsEmptyGate ==
  destroyed => (m_read_locks = 0 /\ ~m_write_lock)

\* Region b is not fully inside the image: a negative origin, or an extent
\* past the width or the height (in the integers, whatever int can hold).
Offending(b) ==
  \/ b.x < 0
  \/ b.y < 0
  \/ b.x > ImageWidth - b.w
  \/ b.y > ImageHeight - b.h

\* C12: in a build with ASSERT compiled in, no ImageBits is constructed over
\* a region that is not fully inside the image (negative origin, x + w past
\* the width, y + h past the height): the constructor's check fails for
\* every such region, whatever the integers x, y, w, h are.
C12_OffendingRegionFails ==
  debugBuild => \A i \in BitsIds : bits[i] # NoBits => ~Offending(bits[i].m_bounds)

\* The last call has returned an iterator.
IteratorReturned == lastCall # NoCall /\ lastCall.call # "unlock"

\* The position (x, y) is an element of the image.
InsideImage(x, y) == x >= 0 /\ x < ImageWidth /\ y >= 0 /\ y < ImageHeight

\* The position (x, y) is one step past the last element of region b.
OnePastLast(b, x, y) ==
  \/ x = b.x /\ y = b.y + b.h
  \/ x = b.x + b.w /\ y = b.y + b.h - 1

\* C13: in a build with ASSERT compiled in, every iterator returned by
\* begin, end, begin_area, end_area of an ImageBits that holds its image is
\* created at a position inside the image (or one step past the last
\* element of its rectangle), and its rectangle is contained in m_bounds;
\* this for every region the constructor accepts, empty ones included.
C13_IteratorsInsideImage ==
  (debugBuild /\ IteratorReturned /\ lastCall.it.m_image # NULL) =>
    /\ \/ InsideImage(lastCall.it.x, lastCall.it.y)
       \/ OnePastLast(lastCall.it.bounds, lastCall.it.x, lastCall.it.y)
    /\ Rect_contains(bits[lastCall.of].m_bounds, lastCall.it.bounds)

\* C14: in a build with ASSERT compiled in, no unlock() call on an already
\* released ImageBits returns, the lock of the image is not released a
\* second time through a copy, and no iterator is returned by an ImageBits
\* that has been released.
C14_UseAfterReleaseDetected ==
  debugBuild =>
    /\ ~(lastCall # NoCall /\ lastCall.call = "unlock" /\ ~lastCall.released)
    /\ unlockBitsCalls <= 1
    /\ ~(IteratorReturned /\ lastCall.it.m_image = NULL)

\* C15: unlockBits is never called more often than lockBits has returned,
\* and exactly as often once the scope of every LockImageBits has ended.
C15_UnlocksMatchLocks ==
  /\ unlockBitsCalls <= lockBitsCalls
  /\ (\A g \in GuardIds : guards[g] = NoGuard \/ guards[g].ended)
       => unlockBitsCalls = lockBitsCalls

\* C16: m_associated_to_file is false for a new Document (the one
\* duplicate() returns included), a call of markAsSaved() makes it true, and
\* no step of any operation takes it from true back to false.
C16_AssociatedFlagMonotonic ==
  /\ ~document.m_associated_to_file
  /\ [][/\ document.m_associated_to_file => document'.m_associated_to_file
        /\ (document.m_undo # "saved" /\ document'.m_undo = "saved") =>
             document'.m_associated_to_file
        /\ (documentCopy = NoDocument /\ documentCopy' # NoDocument) =>
             ~documentCopy'.m_associated_to_file]_vars

C16_Witness ==
  /\ document.m_associated_to_file
  /\ document.m_undo = "impossible"
  /\ document.m_bound.seg # NULL
  /\ document.m_mask.content = "B"
  /\ m_write_lock

\* The number of segment blocks a Document holds.
SegsOf(d) == IF d = NoDocument \/ d.m_bound.seg = NULL THEN 0 ELSE 1

\* The cached boundary without segments.
EmptyBound == [seg |-> NULL, nseg |-> 0]

\* C17: whatever the Document's state and the mask given, after
\* generateMaskBoundaries(mask) the old segment block has been freed and the
\* cached boundary is: empty when no mask is given and the selection is not
\* visible (hidden, or empty); that of the Document's own mask when no mask
\* is given and the selection is visible; that of the given mask otherwise,
\* whatever the visibility flag is, and empty for an empty given mask. No
\* segment block is left allocated besides the cached ones, and no other
\* field of the Document changes.
C17_BoundaryReplaced ==
  ~destroyed =>
    /\ liveSegs = SegsOf(document) + SegsOf(documentCopy)
    /\ \A mask \in CallerMasks \cup {NullMask} :
         LET res == Document_generateMaskBoundaries(document, mask)
             visible == /\ document.m_maskVisible
                        /\ document.m_mask.content # "empty"
         IN /\ res.freed = SegsOf(document)
            /\ res.allocated = SegsOf(res.d)
            /\ res.d.m_bound =
                 IF mask = NullMask
                   THEN (IF visible THEN find_mask_boundary(document.m_mask)
                                    ELSE EmptyBound)
                   ELSE (IF mask.content = "empty" THEN EmptyBound
                                                   ELSE find_mask_boundary(mask))
            /\ [res.d EXCEPT !.m_bound = document.m_bound] = document

C17_Witness ==
  /\ ~destroyed
  /\ document.m_bound.seg = "segments of B"
  /\ document.m_mask.content = "A"
  /\ ~document.m_maskVisible
  /\ liveSegs = 1

\* The step in which duplicate() returns a Document.
DuplicateStep == documentCopy = NoDocument /\ documentCopy' # NoDocument

\* C18: a call of duplicate(type), of either type, leaves m_read_locks and
\* m_write_lock of the source as they are, whatever tickets are outstanding,
\* and the Document it returns has m_read_locks = 0 and m_write_lock = false.
C18_DuplicateLeavesGate ==
  [][DuplicateStep =>
       /\ UNCHANGED gate
       /\ UNCHANGED <<readTickets, writeTicket>>
       /\ documentCopy'.m_read_locks = 0
       /\ ~documentCopy'.m_write_lock]_vars

C18_Witness ==
  /\ documentCopy # NoDocument
  /\ documentCopy.sprite.layers = <<"Flattened">>
  /\ m_read_locks = 0
  /\ m_write_lock
  /\ \A t \in Threads : pc[t] = "idle"

\* C19: the Document duplicate() returns has a mask that is another object
\* with the content of the source's mask, the source's mask-visibility flag,
\* and the source's current transformation.
C19_DuplicateCarriesSelection ==
  [][DuplicateStep =>
       /\ documentCopy'.m_mask.obj # document.m_mask.obj
       /\ documentCopy'.m_mask.content = document.m_mask.content
       /\ documentCopy'.m_maskVisible = document.m_maskVisible
       /\ documentCopy'.m_transformation = document.m_transformation]_vars

\* C20: with callers that respect the preconditions, in every state
\* m_read_locks is the number of read tickets held, m_write_lock is true
\* exactly when one write ticket is held, and the gate is empty when no
\* ticket is held.
C20_CountersMatchTickets ==
  /\ m_read_locks = ReadTicketsOf(readTickets)
  /\ m_write_lock <=> Cardinality(Writers) = 1
  /\ ~m_write_lock <=> Writers = {}
  /\ (Writers = {} /\ \A t \in Threads : readTickets[t] = 0) =>
       (m_read_locks = 0 /\ ~m_write_lock)

C20_Witness ==
  /\ m_read_locks = 0
  /\ ~m_write_lock
  /\ \A t \in Threads : readTickets[t] = 0 /\ writeTicket[t] = "none"
  /\ \E t \in Threads : \E u \in Threads \ {t} :
       /\ pc[t] = "return" /\ op[t] = "unlock"
       /\ pc[u] = "return" /\ op[u] = "unlock"

====
